---- MODULE Spec2Model ----
(***************************************************************************)
(* Model of the version-inference engine of semrel: rule lookup            *)
(* (match_rule, CommitInfo::rule), the streaming changelog collector       *)
(* (collect_changelog_commits_streaming) and ChangeLog::next_version.      *)
(***************************************************************************)
EXTENDS Integers, Sequences, FiniteSets, TLC

VARIABLES pc, current_version, rules, walked, collected_commits,
          max_bump_so_far, changelog, new_version, commit, rule_out, match_out,
          repo_has_commits, dropped,
          opts_rule, config_file, config_rules,
          opts_bump, bump_seq, fold_out,
          notes_first, notes_second,
          message, parsed, formatted, reparsed

\* The repository handed to revwalk and what the walker has let go of.
walk_vars == <<repo_has_commits, dropped>>

\* The inputs of the rule composition in main.
compose_vars == <<opts_rule, config_file, config_rules>>

\* The operands of SimpleVersion::bump and of the BumpRule maximum.
bump_vars == <<opts_bump, bump_seq, fold_out>>

\* Two renderings of the same ChangeLog by aggregated_commits.
notes_vars == <<notes_first, notes_second>>

\* A commit message, what ConventionalCommit::new makes of it, its Display
\* text and what ConventionalCommit::new makes of that.
parse_vars == <<message, parsed, formatted, reparsed>>

vars == <<pc, current_version, rules, walked, collected_commits,
          max_bump_so_far, changelog, new_version, commit, rule_out, match_out,
          walk_vars, compose_vars, bump_vars, notes_vars, parse_vars>>

\* Longest commit stream the walker yields.
MaxLen == 3
\* Longest rule list handed to rule resolution.
MaxRules == 2
\* Largest version component handed to SimpleVersion::bump.
MaxVer == 2
\* Longest sequence of bumps folded into a maximum.
MaxBumps == 3
\* Longest list of changes handed to the aggregator.
MaxChanges == 3
\* Most paragraphs after the header of a commit message.
MaxParas == 2

(***************************************************************************)
(* BumpRule: the enum and its derived order (declaration order).           *)
(***************************************************************************)
BumpRule == {"Notset", "NoBump", "Patch", "Minor", "Major"}

BumpRuleOrd(b) ==
    CASE b = "Notset" -> 0
      [] b = "NoBump" -> 1
      [] b = "Patch"  -> 2
      [] b = "Minor"  -> 3
      [] b = "Major"  -> 4

\* BumpRule::default()
BumpRuleDefault == "Notset"

\* A plausible slip: the comparison is turned around.
BumpRuleMin(a, b) == IF BumpRuleOrd(a) < BumpRuleOrd(b) THEN a ELSE b

\* Ord::max on BumpRule: the other operand unless self is strictly greater.
BumpRuleMax(a, b) == IF BumpRuleOrd(a) > BumpRuleOrd(b) THEN a ELSE b

(***************************************************************************)
(* CommitType: a tagged sum; Custom carries its text.                      *)
(***************************************************************************)
Feat == <<"Feat">>
Fix == <<"Fix">>
Perf == <<"Perf">>
Refactor == <<"Refactor">>
Revert == <<"Revert">>
Style == <<"Style">>
Test == <<"Test">>
Build == <<"Build">>
Chore == <<"Chore">>
Ci == <<"Ci">>
Cd == <<"Cd">>
Docs == <<"Docs">>
Custom(s) == <<"Custom", s>>
NonCompliant == <<"NonCompliant">>
Unknown == <<"Unknown">>

\* A plausible slip: chore is left without a bump.
build_default_rules_chore_nobump ==
    << <<Build, "NoBump">>, <<Chore, "NoBump">>, <<Ci, "NoBump">>,
       <<Cd, "NoBump">>, <<Docs, "NoBump">>, <<Feat, "Minor">>,
       <<Fix, "Patch">>, <<Perf, "Patch">>, <<Refactor, "Patch">>,
       <<Revert, "Patch">>, <<Style, "Patch">>, <<Test, "NoBump">> >>

\* build_default_rules(): the built-in mapping, in source order.
build_default_rules ==
    << <<Build, "NoBump">>, <<Chore, "Patch">>, <<Ci, "NoBump">>,
       <<Cd, "NoBump">>, <<Docs, "NoBump">>, <<Feat, "Minor">>,
       <<Fix, "Patch">>, <<Perf, "Patch">>, <<Refactor, "Patch">>,
       <<Revert, "Patch">>, <<Style, "Patch">>, <<Test, "NoBump">> >>

\* Iterator::find over the rule list: index of the first pair whose type
\* equals the query, 0 when there is none.
FindRule(rs, commit_type) ==
    IF \E i \in 1..Len(rs) : rs[i][1] = commit_type
    THEN CHOOSE i \in 1..Len(rs) :
            /\ rs[i][1] = commit_type
            /\ \A j \in 1..(i - 1) : rs[j][1] # commit_type
    ELSE 0

\* A plausible slip: rfind instead of find (last matching pair wins).
match_rule_last(rs, commit_type) ==
    IF \E i \in 1..Len(rs) : rs[i][1] = commit_type
    THEN rs[CHOOSE i \in 1..Len(rs) :
            /\ rs[i][1] = commit_type
            /\ \A j \in (i + 1)..Len(rs) : rs[j][1] # commit_type][2]
    ELSE BumpRuleDefault

\* match_rule(rules, commit_type)
match_rule(rs, commit_type) ==
    IF FindRule(rs, commit_type) = 0 THEN BumpRuleDefault
    ELSE rs[FindRule(rs, commit_type)][2]

\* A plausible slip: the rule list is consulted before the breaking flag.
rule_lookup_first(c, rs) ==
    LET effective == IF rs = <<>> THEN build_default_rules ELSE rs
        found == match_rule(effective, c.commit_type)
    IN IF found # BumpRuleDefault THEN found
       ELSE IF c.breaking_change THEN "Major" ELSE found

\* A plausible slip: the defaults are consulted whenever the list misses.
rule_fallback_always(c, rs) ==
    IF c.breaking_change THEN "Major"
    ELSE IF FindRule(rs, c.commit_type) = 0
         THEN match_rule(build_default_rules, c.commit_type)
         ELSE match_rule(rs, c.commit_type)

\* CommitInfo::rule(&self, rules)
rule(c, rs) ==
    IF c.breaking_change THEN "Major"
    ELSE LET effective == IF rs = <<>> THEN build_default_rules ELSE rs
         IN match_rule(effective, c.commit_type)

(***************************************************************************)
(* SimpleVersion: a triple with the derived lexicographic order.           *)
(***************************************************************************)
SimpleVersion(ma, mi, pa) == [major |-> ma, minor |-> mi, patch |-> pa]

VersionLt(a, b) ==
    \/ a.major < b.major
    \/ a.major = b.major /\ a.minor < b.minor
    \/ a.major = b.major /\ a.minor = b.minor /\ a.patch < b.patch

\* A plausible slip: the comparison with current_version is strict, so a
\* boundary equal to the current version counts as an older one.
VersionGe_strict(a, b) == VersionLt(b, a)

\* *version_at_commit >= current_version
VersionGe(a, b) == ~VersionLt(a, b)

\* A plausible slip: increment_major forgets to reset the lower components.
bump_major_keeps_lower(v, b) ==
    CASE b = "Major" -> SimpleVersion(v.major + 1, v.minor, v.patch)
      [] b = "Minor" -> SimpleVersion(v.major, v.minor + 1, 0)
      [] b = "Patch" -> SimpleVersion(v.major, v.minor, v.patch + 1)
      [] OTHER       -> v

\* A plausible slip: NoBump falls into the Patch arm.
bump_nobump_is_patch(v, b) ==
    CASE b = "Major" -> SimpleVersion(v.major + 1, 0, 0)
      [] b = "Minor" -> SimpleVersion(v.major, v.minor + 1, 0)
      [] b \in {"Patch", "NoBump"} -> SimpleVersion(v.major, v.minor, v.patch + 1)
      [] OTHER       -> v

\* SimpleVersion::bump(rule)
bump(v, b) ==
    CASE b = "Major" -> SimpleVersion(v.major + 1, 0, 0)
      [] b = "Minor" -> SimpleVersion(v.major, v.minor + 1, 0)
      [] b = "Patch" -> SimpleVersion(v.major, v.minor, v.patch + 1)
      [] OTHER       -> v

\* Option<SimpleVersion>: <<>> is None, <<v>> is Some(v).
None == <<>>
Some(v) == <<v>>

(***************************************************************************)
(* The streaming collector.                                                *)
(***************************************************************************)
\* A plausible slip: a major bump stops at any x.y.0 boundary.
boundary_matches_major_loose(max_bump, minor, patch) ==
    \/ max_bump = "Major" /\ patch = 0
    \/ max_bump = "Minor" /\ patch = 0
    \/ max_bump = "Patch"

\* A plausible slip: a minor bump stops at any boundary.
boundary_matches_minor_loose(max_bump, minor, patch) ==
    \/ max_bump = "Major" /\ minor = 0 /\ patch = 0
    \/ max_bump = "Minor"
    \/ max_bump = "Patch"

\* The match on (max_bump_so_far, minor, patch) of the collector.
boundary_matches(max_bump, minor, patch) ==
    \/ max_bump = "Major" /\ minor = 0 /\ patch = 0
    \/ max_bump = "Minor" /\ patch = 0
    \/ max_bump = "Patch"

\* A plausible slip: the commit's own bump is folded before the decision.
decision_bump_folded(max_bump, commit_bump) == BumpRuleMax(max_bump, commit_bump)

\* The bump the boundary decision is matched against: max_bump_so_far as it
\* stands when the commit is taken, the commit's own bump not yet folded.
decision_bump(max_bump, commit_bump) == max_bump

\* ConventionalCommit, reduced to the fields bump resolution reads.
ConventionalCommit(t, b) == [commit_type |-> t, breaking_change |-> b]

\* CommitWithVersion: the commit and the manifest version recorded at it.
CommitWithVersion(c, v) == [commit_info |-> c, version_at_commit |-> v]

\* The commits the walker may yield.
WalkerCommits ==
    {ConventionalCommit(Feat, FALSE), ConventionalCommit(Fix, FALSE),
     ConventionalCommit(Docs, FALSE), ConventionalCommit(Fix, TRUE)}

\* The manifest versions a historical commit may record.
BoundaryVersions ==
    {SimpleVersion(0, 0, 1), SimpleVersion(0, 1, 0),
     SimpleVersion(1, 0, 0), SimpleVersion(1, 1, 0)}

\* The version of the working-tree manifest.
CurrentVersions == {SimpleVersion(1, 1, 0)}

\* The rule lists a run is given: none, and the list of the algorithm tests.
RuleLists == {<<>>, << <<Fix, "Patch">>, <<Feat, "Minor">> >>}

WalkerStream ==
    {CommitWithVersion(c, v) : c \in WalkerCommits,
                               v \in {None} \cup {Some(w) : w \in BoundaryVersions}}

\* ConventionalCommit::default()
DefaultCommit == ConventionalCommit(Unknown, FALSE)

\* Variables a specification does not exercise rest at these values.
IdleWalk == repo_has_commits = TRUE /\ dropped = FALSE

IdleCompose ==
    opts_rule = <<"Ok", <<>>>> /\ config_file = <<"None">> /\ config_rules = <<>>

IdleBump == opts_bump = BumpRuleDefault /\ bump_seq = <<>> /\ fold_out = "pending"

IdleNotes == notes_first = <<>> /\ notes_second = <<>>

IdleParse ==
    /\ message = <<>>
    /\ parsed = <<"pending">>
    /\ formatted = <<>>
    /\ reparsed = <<"pending">>

Init ==
    /\ pc = "start"
    /\ current_version \in CurrentVersions
    /\ rules \in RuleLists
    /\ walked = <<>>
    /\ collected_commits = <<>>
    /\ max_bump_so_far = BumpRuleDefault
    /\ changelog = None
    /\ new_version = None
    /\ commit = DefaultCommit
    /\ rule_out = "pending"
    /\ match_out = "pending"
    /\ repo_has_commits \in BOOLEAN
    /\ dropped = FALSE
    /\ IdleCompose /\ IdleBump /\ IdleNotes /\ IdleParse

\* A plausible slip: an unborn HEAD is taken for an empty walk.
push_head_unborn_ok(has_commits) == "Ok"

\* revwalk.push_head(): there is no HEAD to push in a repository without
\* commits.
push_head(has_commits) == IF has_commits THEN "Ok" ELSE "Err"

\* revwalk(repo, manifest_path)?: the walker is created, or the error of
\* push_head is returned as InvalidRepository.
revwalk ==
    /\ pc = "start"
    /\ pc' = IF push_head(repo_has_commits) = "Ok" THEN "walk" ELSE "error"
    /\ UNCHANGED <<current_version, rules, walked, collected_commits,
                   max_bump_so_far, changelog, new_version,
                   commit, rule_out, match_out>>
    /\ UNCHANGED <<walk_vars, compose_vars, bump_vars, notes_vars>>
    /\ UNCHANGED parse_vars

\* Inside the walker: an oid that is an Err, or whose get_files_changed is
\* an Err, goes through flat_map over a Result, which yields nothing for it;
\* the walker moves on to the next oid.
DropFailed ==
    /\ pc = "walk"
    /\ repo_has_commits
    /\ dropped' = TRUE
    /\ UNCHANGED <<pc, current_version, rules, walked, collected_commits,
                   max_bump_so_far, changelog, new_version,
                   commit, rule_out, match_out>>
    /\ UNCHANGED <<repo_has_commits, compose_vars, bump_vars, notes_vars>>
    /\ UNCHANGED parse_vars

\* Inside the loop body: find_commit, the message parse, get_files_changed
\* or the manifest read fails on the yielded oid and `?` returns the error.
IterateFails ==
    /\ pc = "walk"
    /\ repo_has_commits
    /\ pc' = "error"
    /\ UNCHANGED <<current_version, rules, walked, collected_commits,
                   max_bump_so_far, changelog, new_version,
                   commit, rule_out, match_out>>
    /\ UNCHANGED <<walk_vars, compose_vars, bump_vars, notes_vars>>
    /\ UNCHANGED parse_vars

\* A plausible slip: the commit is pushed before the boundary is examined,
\* so the commit the walk stops at is collected too.
Iterate_pushes_first(cwv) ==
    /\ pc = "walk"
    /\ repo_has_commits
    /\ Len(walked) < MaxLen
    /\ walked' = Append(walked, cwv)
    /\ max_bump_so_far' =
          BumpRuleMax(max_bump_so_far, rule(cwv.commit_info, rules))
    /\ collected_commits' = Append(collected_commits, cwv)
    /\ pc' = IF /\ cwv.version_at_commit # None
                /\ VersionLt(cwv.version_at_commit[1], current_version)
                /\ boundary_matches(max_bump_so_far,
                                    cwv.version_at_commit[1].minor,
                                    cwv.version_at_commit[1].patch)
             THEN "break" ELSE "walk"
    /\ UNCHANGED <<current_version, rules, changelog, new_version,
                   commit, rule_out, match_out>>
    /\ UNCHANGED <<walk_vars, compose_vars, bump_vars, notes_vars>>
    /\ UNCHANGED parse_vars

\* A plausible slip: a commit that carries a version boundary is pushed
\* without its bump being folded into max_bump_so_far.
Iterate_boundary_not_folded(cwv) ==
    /\ pc = "walk"
    /\ repo_has_commits
    /\ Len(walked) < MaxLen
    /\ walked' = Append(walked, cwv)
    /\ IF /\ cwv.version_at_commit # None
          /\ VersionLt(cwv.version_at_commit[1], current_version)
          /\ boundary_matches(max_bump_so_far,
                              cwv.version_at_commit[1].minor,
                              cwv.version_at_commit[1].patch)
       THEN /\ pc' = "break"
            /\ UNCHANGED <<max_bump_so_far, collected_commits>>
       ELSE /\ pc' = "walk"
            /\ collected_commits' = Append(collected_commits, cwv)
            /\ max_bump_so_far' =
                  IF cwv.version_at_commit # None THEN max_bump_so_far
                  ELSE BumpRuleMax(max_bump_so_far,
                                   rule(cwv.commit_info, rules))
    /\ UNCHANGED <<current_version, rules, changelog, new_version,
                   commit, rule_out, match_out>>
    /\ UNCHANGED <<walk_vars, compose_vars, bump_vars, notes_vars>>
    /\ UNCHANGED parse_vars

\* One iteration of the for loop over the walker, on the commit cwv.
Iterate(cwv) ==
    /\ pc = "walk"
    /\ repo_has_commits
    /\ Len(walked) < MaxLen
    /\ walked' = Append(walked, cwv)
    /\ LET commit_bump == rule(cwv.commit_info, rules)
           push == /\ max_bump_so_far' = BumpRuleMax(max_bump_so_far, commit_bump)
                   /\ collected_commits' = Append(collected_commits, cwv)
                   /\ pc' = "walk"
       IN IF cwv.version_at_commit # None
          THEN LET version_at_commit == cwv.version_at_commit[1]
               IN IF VersionGe(version_at_commit, current_version)
                  THEN push
                  ELSE IF boundary_matches(decision_bump(max_bump_so_far, commit_bump),
                                           version_at_commit.minor,
                                           version_at_commit.patch)
                       THEN /\ pc' = "break"
                            /\ UNCHANGED <<max_bump_so_far, collected_commits>>
                       ELSE push
          ELSE push
    /\ UNCHANGED <<current_version, rules, changelog, new_version,
                   commit, rule_out, match_out>>
    /\ UNCHANGED <<walk_vars, compose_vars, bump_vars, notes_vars>>
    /\ UNCHANGED parse_vars

\* The walker has no further commit: the for loop ends.
WalkEnd ==
    /\ pc = "walk"
    /\ pc' = "end"
    /\ UNCHANGED <<current_version, rules, walked, collected_commits,
                   max_bump_so_far, changelog, new_version,
                   commit, rule_out, match_out>>
    /\ UNCHANGED <<walk_vars, compose_vars, bump_vars, notes_vars>>
    /\ UNCHANGED parse_vars

\* Phase 1 of the legacy collector over the first n commits: the commits
\* without version boundary, in input order, and the maximum of their bumps.
RECURSIVE legacy_first_pass(_, _, _)
legacy_first_pass(cwvs, rs, n) ==
    IF n = 0 THEN [collected |-> <<>>, max_bump |-> BumpRuleDefault]
    ELSE LET acc == legacy_first_pass(cwvs, rs, n - 1)
             cwv == cwvs[n]
         IN IF cwv.version_at_commit = None
            THEN [collected |-> Append(acc.collected, cwv),
                  max_bump  |-> BumpRuleMax(acc.max_bump,
                                            rule(cwv.commit_info, rs))]
            ELSE acc

\* Phase 2 of the legacy collector from the i-th commit on: commits without
\* boundary are passed over, a boundary not below v is skipped, a boundary
\* that matches the maximum breaks the loop, any other boundary commit is
\* pushed and folded.
RECURSIVE legacy_second_pass(_, _, _, _, _)
legacy_second_pass(cwvs, v, rs, i, acc) ==
    IF i > Len(cwvs) THEN acc.collected
    ELSE LET cwv == cwvs[i]
         IN IF cwv.version_at_commit = None
            THEN legacy_second_pass(cwvs, v, rs, i + 1, acc)
            ELSE LET version_at_commit == cwv.version_at_commit[1]
                 IN IF VersionGe(version_at_commit, v)
                    THEN legacy_second_pass(cwvs, v, rs, i + 1, acc)
                    ELSE IF boundary_matches(acc.max_bump,
                                             version_at_commit.minor,
                                             version_at_commit.patch)
                         THEN acc.collected
                         ELSE legacy_second_pass(cwvs, v, rs, i + 1,
                                [collected |-> Append(acc.collected, cwv),
                                 max_bump  |-> BumpRuleMax(acc.max_bump,
                                                 rule(cwv.commit_info, rs))])

\* collect_changelog_commits(commits_with_versions, current_version, rules):
\* the legacy collector over a sequence held in memory.
collect_changelog_commits(cwvs, v, rs) ==
    legacy_second_pass(cwvs, v, rs, 1, legacy_first_pass(cwvs, rs, Len(cwvs)))

\* ChangeLog::new
ChangeLogNew(v, changes) == [current_version |-> v, changes |-> changes]

\* get_changelog: the collector returns and the ChangeLog is built.
get_changelog ==
    /\ pc \in {"break", "end"}
    /\ changelog' = Some(ChangeLogNew(current_version, collected_commits))
    /\ pc' = "returned"
    /\ UNCHANGED <<current_version, rules, walked, collected_commits,
                   max_bump_so_far, new_version, commit, rule_out, match_out>>
    /\ UNCHANGED <<walk_vars, compose_vars, bump_vars, notes_vars>>
    /\ UNCHANGED parse_vars

\* The fold of next_version over the first n changes.
RECURSIVE FoldMaxBump(_, _, _)
FoldMaxBump(changes, rs, n) ==
    IF n = 0 THEN BumpRuleDefault
    ELSE BumpRuleMax(FoldMaxBump(changes, rs, n - 1),
                     rule(changes[n].commit_info, rs))

\* A plausible slip: the fold keeps the latest bump instead of the maximum.
next_version_last(cl, rs) ==
    bump(cl.current_version,
         IF Len(cl.changes) = 0 THEN BumpRuleDefault
         ELSE rule(cl.changes[Len(cl.changes)].commit_info, rs))

\* ChangeLog::next_version(rules)
next_version(cl, rs) ==
    bump(cl.current_version, FoldMaxBump(cl.changes, rs, Len(cl.changes)))

\* The caller asks the ChangeLog for the next version.
NextVersion ==
    /\ pc = "returned"
    /\ new_version' = Some(next_version(changelog[1], rules))
    /\ pc' = "done"
    /\ UNCHANGED <<current_version, rules, walked, collected_commits,
                   max_bump_so_far, changelog, commit, rule_out, match_out>>
    /\ UNCHANGED <<walk_vars, compose_vars, bump_vars, notes_vars>>
    /\ UNCHANGED parse_vars

Next ==
    \/ revwalk
    \/ \E cwv \in WalkerStream : Iterate(cwv)
    \/ DropFailed
    \/ IterateFails
    \/ WalkEnd
    \/ get_changelog
    \/ NextVersion

Spec == Init /\ [][Next]_vars

(***************************************************************************)
(* Rule resolution on its own: a commit and a rule list are drawn, then    *)
(* CommitInfo::rule and match_rule are applied to them.                    *)
(***************************************************************************)
RuleTypes ==
    {Feat, Fix, Perf, Refactor, Revert, Style, Test, Build, Chore, Ci, Cd, Docs,
     Custom("feat"), NonCompliant, Unknown}

RuleBumps == {"NoBump", "Patch", "Major"}

RulePairs == {<<t, b>> : t \in {Feat, Fix, Custom("feat")}, b \in RuleBumps}

RECURSIVE SeqsUpTo(_, _)
SeqsUpTo(S, n) ==
    IF n = 0 THEN {<<>>}
    ELSE LET shorter == SeqsUpTo(S, n - 1)
         IN shorter \cup {Append(s, x) : s \in shorter, x \in S}

InitRules ==
    /\ pc = "call"
    /\ current_version \in CurrentVersions
    /\ rules \in SeqsUpTo(RulePairs, MaxRules)
    /\ walked = <<>>
    /\ collected_commits = <<>>
    /\ max_bump_so_far = BumpRuleDefault
    /\ changelog = None
    /\ new_version = None
    /\ commit \in {ConventionalCommit(t, b) : t \in RuleTypes, b \in BOOLEAN}
    /\ rule_out = "pending"
    /\ match_out = "pending"
    /\ IdleWalk /\ IdleCompose /\ IdleBump /\ IdleNotes /\ IdleParse

\* A caller resolves the commit's bump: commit_info.rule(rules).
CallRule ==
    /\ pc = "call"
    /\ rule_out = "pending"
    /\ rule_out' = rule(commit, rules)
    /\ UNCHANGED <<pc, current_version, rules, walked, collected_commits,
                   max_bump_so_far, changelog, new_version, commit, match_out>>
    /\ UNCHANGED <<walk_vars, compose_vars, bump_vars, notes_vars>>
    /\ UNCHANGED parse_vars

\* A caller looks the commit's type up: match_rule(rules, commit_type).
CallMatchRule ==
    /\ pc = "call"
    /\ match_out = "pending"
    /\ match_out' = match_rule(rules, commit.commit_type)
    /\ UNCHANGED <<pc, current_version, rules, walked, collected_commits,
                   max_bump_so_far, changelog, new_version, commit, rule_out>>
    /\ UNCHANGED <<walk_vars, compose_vars, bump_vars, notes_vars>>
    /\ UNCHANGED parse_vars

NextRules == CallRule \/ CallMatchRule

SpecRules == InitRules /\ [][NextRules]_vars

(***************************************************************************)
(* Rule composition in main: the configuration file is loaded, the --rule  *)
(* texts are parsed, and the active rule list is chained together.         *)
(***************************************************************************)
ComposePairs == {<<t, b>> : t \in {Chore, Feat}, b \in {"Minor", "NoBump"}}

\* parse_rules(&opts.rule): the parsed pairs, or an error for a text that is
\* not type=bump.
OptsRules == {<<"Ok", rs>> : rs \in SeqsUpTo(ComposePairs, MaxRules)} \cup {<<"Err">>}

\* BumpRuleConfig keeps its rules in a HashMap: one bump per commit type.
ConfigTables ==
    {T \in SUBSET ComposePairs :
        /\ Cardinality(T) <= MaxRules
        /\ \A x \in T, y \in T : x[1] = y[1] => x = y}

\* What config_path resolves to: no path, a path to no file, a file that does
\* not parse, or a file holding a rule table.
ConfigFiles ==
    {<<"None">>, <<"Missing">>, <<"Malformed">>}
        \cup {<<"Rules", T>> : T \in ConfigTables}

\* load_config(path)
load_config(file) ==
    CASE file[1] = "Rules"     -> <<"Ok", file[2]>>
      [] file[1] = "Missing"   -> <<"Ok", {}>>
      [] file[1] = "Malformed" -> <<"Err", "InvalidConfig">>

\* The orders in which iterating a HashMap may yield its entries.
Orderings(T) ==
    {rs \in SeqsUpTo(T, Cardinality(T)) :
        Len(rs) = Cardinality(T) /\ {rs[i] : i \in 1..Len(rs)} = T}

\* A plausible slip: the configuration rules are chained ahead of the CLI's.
compose_rules_config_first(cli, config) == config \o cli \o build_default_rules

\* A plausible slip: the built-in defaults are left off the chain.
compose_rules_no_defaults(cli, config) == cli \o config

\* parse_rules(..).chain(config_rules).chain(build_default_rules())
compose_rules(cli, config) == cli \o config \o build_default_rules

InitCompose ==
    /\ pc = "config"
    /\ current_version \in CurrentVersions
    /\ rules = <<>>
    /\ walked = <<>>
    /\ collected_commits = <<>>
    /\ max_bump_so_far = BumpRuleDefault
    /\ changelog = None
    /\ new_version = None
    /\ commit \in {ConventionalCommit(t, b) :
                     t \in {Chore, Feat, Fix, Custom("chore")}, b \in BOOLEAN}
    /\ rule_out = "pending"
    /\ match_out = "pending"
    /\ opts_rule \in OptsRules
    /\ config_file \in ConfigFiles
    /\ config_rules = <<>>
    /\ IdleWalk /\ IdleBump /\ IdleNotes /\ IdleParse

\* main, the config_rules match: a load error is logged and the rules
\* of SemRelConfig::default() are used in its place.
LoadConfig ==
    /\ pc = "config"
    /\ IF config_file[1] = "None"
       THEN config_rules' = <<>>
       ELSE LET loaded == load_config(config_file)
            IN IF loaded[1] = "Ok"
               THEN config_rules' \in Orderings(loaded[2])
               ELSE config_rules' = <<>>
    /\ pc' = "compose"
    /\ UNCHANGED <<current_version, rules, walked, collected_commits,
                   max_bump_so_far, changelog, new_version,
                   commit, rule_out, match_out>>
    /\ UNCHANGED <<opts_rule, config_file>>
    /\ UNCHANGED <<walk_vars, bump_vars, notes_vars>>
    /\ UNCHANGED parse_vars

\* main, the rules chain: parse_rules(..)? returns its error to the
\* caller, otherwise the three lists are collected into one.
ComposeRules ==
    /\ pc = "compose"
    /\ IF opts_rule[1] = "Err"
       THEN pc' = "error" /\ rules' = rules
       ELSE /\ rules' = compose_rules(opts_rule[2], config_rules)
            /\ pc' = "call"
    /\ UNCHANGED <<current_version, walked, collected_commits,
                   max_bump_so_far, changelog, new_version,
                   commit, rule_out, match_out>>
    /\ UNCHANGED <<walk_vars, compose_vars, bump_vars, notes_vars>>
    /\ UNCHANGED parse_vars

NextCompose == LoadConfig \/ ComposeRules \/ CallRule \/ CallMatchRule

SpecCompose == InitCompose /\ [][NextCompose]_vars

(***************************************************************************)
(* SimpleVersion::bump on its own: a version and a bump are drawn and the  *)
(* bump is applied (BumpRule::bump_version).                               *)
(***************************************************************************)
Versions ==
    {SimpleVersion(ma, mi, pa) : ma \in 0..MaxVer, mi \in 0..MaxVer, pa \in 0..MaxVer}

InitBump ==
    /\ pc = "bump"
    /\ current_version \in Versions
    /\ rules = <<>>
    /\ walked = <<>>
    /\ collected_commits = <<>>
    /\ max_bump_so_far = BumpRuleDefault
    /\ changelog = None
    /\ new_version = None
    /\ commit = DefaultCommit
    /\ rule_out = "pending"
    /\ match_out = "pending"
    /\ opts_bump \in BumpRule
    /\ bump_seq = <<>>
    /\ fold_out = "pending"
    /\ IdleWalk /\ IdleCompose /\ IdleNotes /\ IdleParse

\* rule.bump_version(version): version.bump(rule) gives the new version.
CallBump ==
    /\ pc = "bump"
    /\ new_version' = Some(bump(current_version, opts_bump))
    /\ pc' = "bumped"
    /\ UNCHANGED <<current_version, rules, walked, collected_commits,
                   max_bump_so_far, changelog, commit, rule_out, match_out>>
    /\ UNCHANGED <<walk_vars, compose_vars, bump_vars, notes_vars>>
    /\ UNCHANGED parse_vars

NextBump == CallBump

SpecBump == InitBump /\ [][NextBump]_vars

(***************************************************************************)
(* The maximum of BumpRule on its own: a sequence of bumps is drawn and    *)
(* folded with Ord::max from BumpRule::default().                          *)
(***************************************************************************)
\* fold(BumpRule::default(), |acc, b| acc.max(b)) over the first n bumps.
RECURSIVE FoldBumps(_, _)
FoldBumps(bs, n) ==
    IF n = 0 THEN BumpRuleDefault
    ELSE BumpRuleMax(FoldBumps(bs, n - 1), bs[n])

InitMax ==
    /\ pc = "fold"
    /\ current_version \in CurrentVersions
    /\ rules = <<>>
    /\ walked = <<>>
    /\ collected_commits = <<>>
    /\ max_bump_so_far = BumpRuleDefault
    /\ changelog = None
    /\ new_version = None
    /\ commit = DefaultCommit
    /\ rule_out = "pending"
    /\ match_out = "pending"
    /\ opts_bump = BumpRuleDefault
    /\ bump_seq \in SeqsUpTo(BumpRule, MaxBumps)
    /\ fold_out = "pending"
    /\ IdleWalk /\ IdleCompose /\ IdleNotes /\ IdleParse

\* The running maximum is taken over the whole sequence.
FoldMax ==
    /\ pc = "fold"
    /\ fold_out' = FoldBumps(bump_seq, Len(bump_seq))
    /\ pc' = "folded"
    /\ UNCHANGED <<current_version, rules, walked, collected_commits,
                   max_bump_so_far, changelog, new_version,
                   commit, rule_out, match_out>>
    /\ UNCHANGED <<opts_bump, bump_seq>>
    /\ UNCHANGED <<walk_vars, compose_vars, notes_vars>>
    /\ UNCHANGED parse_vars

NextMax == FoldMax

SpecMax == InitMax /\ [][NextMax]_vars

(***************************************************************************)
(* ChangeLog::aggregated_commits on its own: a list of changes is drawn    *)
(* and aggregated twice.                                                   *)
(***************************************************************************)
\* The derived order of CommitType: the rank of the variant.
CommitTypeOrd(t) ==
    CASE t = Feat -> 0 [] t = Fix -> 1 [] t = Perf -> 2 [] t = Refactor -> 3
      [] t = Revert -> 4 [] t = Style -> 5 [] t = Test -> 6 [] t = Build -> 7
      [] t = Chore -> 8 [] t = Ci -> 9 [] t = Cd -> 10 [] t = Docs -> 11
      [] t[1] = "Custom" -> 12 [] t = NonCompliant -> 13 [] t = Unknown -> 14

\* commit_type.as_str().starts_with("semrel")
StartsWithSemrel(t) == t \in {Custom("semrel"), Custom("semrel-release")}

\* A CommitInfo as the aggregator reads it; scope is
\* commit.scope.unwrap_or_default(), so "" stands for no scope.
CommitInfoNew(id, t, sc) ==
    [id |-> id, commit_type |-> t, scope |-> sc, breaking_change |-> FALSE]

NoteKinds == {Feat, Fix, Custom("semrel")} \X {"", "api", "cli"}

\* The lists of changes drawn: the id of a commit is its place in the list.
NoteChanges ==
    {[i \in 1..Len(ks) |-> CommitInfoNew(i, ks[i][1], ks[i][2])] :
        ks \in SeqsUpTo(NoteKinds, MaxChanges)}

\* CommitGroup::new
CommitGroupNew(t, scopes) == [commit_type |-> t, scopes |-> scopes]

\* The commits pushed under map[t][sc], in the order of the changes.
ScopeCommits(changes, t, sc) ==
    SelectSeq(changes, LAMBDA c : c.commit_type = t /\ c.scope = sc)

\* The keys of the inner map of a commit type.
ScopesOf(changes, t) ==
    {changes[i].scope : i \in {j \in 1..Len(changes) : changes[j].commit_type = t}}

\* The keys of the outer map that pass the filter.
GroupTypes(changes) ==
    {t \in {changes[i].commit_type : i \in 1..Len(changes)} : ~StartsWithSemrel(t)}

\* vec.sort(): the groups in the order of their commit types.
SortedTypes(T) ==
    CHOOSE ts \in Orderings(T) :
        \A i \in 1..Len(ts), j \in 1..Len(ts) :
            i < j => CommitTypeOrd(ts[i]) < CommitTypeOrd(ts[j])

\* aggregated_commits(): every value the call may return.  The scopes of a
\* group are collected from a HashMap, whose iteration order is arbitrary
\* and is not sorted afterwards.
aggregated_commits(changes) ==
    LET T == GroupTypes(changes)
        ts == SortedTypes(T)
        ScopeOrders ==
            {f \in [T -> UNION {Orderings(ScopesOf(changes, t)) : t \in T}] :
                \A t \in T : f[t] \in Orderings(ScopesOf(changes, t))}
    IN {[i \in 1..Len(ts) |->
            CommitGroupNew(ts[i],
                [k \in 1..Len(f[ts[i]]) |->
                    <<f[ts[i]][k], ScopeCommits(changes, ts[i], f[ts[i]][k])>>])] :
         f \in ScopeOrders}

InitNotes ==
    /\ pc = "notes"
    /\ current_version \in CurrentVersions
    /\ rules = <<>>
    /\ walked = <<>>
    /\ collected_commits = <<>>
    /\ max_bump_so_far = BumpRuleDefault
    /\ changelog \in {Some(ChangeLogNew(current_version, changes)) :
                         changes \in NoteChanges}
    /\ new_version = None
    /\ commit = DefaultCommit
    /\ rule_out = "pending"
    /\ match_out = "pending"
    /\ notes_first = <<>>
    /\ notes_second = <<>>
    /\ IdleWalk /\ IdleCompose /\ IdleBump /\ IdleParse

\* self.aggregated_commits(), called once and then once more on the same
\* ChangeLog.
Aggregate ==
    /\ pc \in {"notes", "once"}
    /\ \E out \in aggregated_commits(changelog[1].changes) :
          IF pc = "notes"
          THEN notes_first' = out /\ notes_second' = notes_second /\ pc' = "once"
          ELSE notes_second' = out /\ notes_first' = notes_first /\ pc' = "twice"
    /\ UNCHANGED <<current_version, rules, walked, collected_commits,
                   max_bump_so_far, changelog, new_version,
                   commit, rule_out, match_out>>
    /\ UNCHANGED <<walk_vars, compose_vars, bump_vars>>
    /\ UNCHANGED parse_vars

NextNotes == Aggregate

SpecNotes == InitNotes /\ [][NextNotes]_vars

(***************************************************************************)
(* The commit-message parser: ConventionalCommit::new, finalize_commit and *)
(* Display.  A message is its leading git plumbing lines, its header line  *)
(* and the paragraphs after it; a paragraph is the sequence of its tokens, *)
(* so that a prefix test is a test on the first tokens.                    *)
(***************************************************************************)
BC == "BREAKING CHANGE"

\* The paragraphs drawn: plain text, the bare phrase, the phrase with a
\* colon and text, the phrase followed by text without a colon.
Paragraphs == {<<"t">>, <<BC>>, <<BC, ":", "t">>, <<BC, "t">>}

\* The header lines drawn: [!]type[(scope)][!]: subject, or a free line.
HeaderLines ==
    {<<"conv", bang, ty, sc, "s">> :
        bang \in BOOLEAN, ty \in {"feat", "feature", "ENG-1"},
        sc \in {None, Some("api"), Some("fix")}}
      \cup {<<"free", "s">>}

\* A message text.
Message(pre, hd, ps) == [preamble |-> pre, header |-> hd, paras |-> ps]

Messages ==
    {Message(pre, Some(hd), ps) :
        pre \in BOOLEAN, hd \in HeaderLines, ps \in SeqsUpTo(Paragraphs, MaxParas)}
      \cup {Message(pre, None, <<>>) : pre \in BOOLEAN}

\* prune_message: the leading plumbing lines are dropped.
prune_message(m) == [m EXCEPT !.preamble = FALSE]

\* str::is_empty on a message text.
is_empty(m) == ~m.preamble /\ m.header = None

\* CommitType::from(&str)
CommitTypeFrom(text) ==
    CASE text \in {"feat", "feature"} -> Feat
      [] text \in {"fix"} -> Fix
      [] OTHER -> Custom(text)

\* CommitType::as_str
as_str(t) ==
    CASE t = Feat -> "feat"
      [] t = Fix -> "fix"
      [] t[1] = "Custom" -> t[2]
      [] t = NonCompliant -> "NonCompliant"
      [] t = Unknown -> "Unknown"

\* ConventionalCommit::default()
ConventionalCommitDefault ==
    [commit_type |-> Unknown, scope |-> None, subject |-> "", footer |-> None,
     body |-> None, breaking_change |-> FALSE]

\* The pairs the grammar yields for a message text: the breaking shorthand,
\* the type, the scope, the subject and the section after the header.  A
\* line that is not a header is the subject alone; so is a plumbing line.
CommitMessageParser(m) ==
    IF m.header = None
    THEN [bang |-> FALSE, commit_type |-> None, scope |-> None,
          subject |-> "plumbing", section |-> <<>>]
    ELSE LET hd == m.header[1]
         IN IF hd[1] = "conv"
            THEN [bang |-> hd[2], commit_type |-> Some(hd[3]), scope |-> hd[4],
                  subject |-> hd[5], section |-> m.paras]
            ELSE [bang |-> FALSE, commit_type |-> None, scope |-> None,
                  subject |-> hd[2], section |-> m.paras]

\* parse_scope: a scope that reads as a standard commit type is an error.
parse_scope(text) ==
    IF CommitTypeFrom(text)[1] = "Custom"
    THEN <<"Ok", Some(text)>>
    ELSE <<"Err", "ScopeIsCommitType">>

\* str::starts_with("BREAKING CHANGE") on a paragraph.
StartsWithBC(para) == Len(para) >= 1 /\ para[1] = BC

\* str::strip_prefix("BREAKING CHANGE:") on a paragraph, then trim_start.
StripBCColon(para) ==
    IF Len(para) >= 2 /\ para[1] = BC /\ para[2] = ":"
    THEN Some(SubSeq(para, 3, Len(para)))
    ELSE None

\* A plausible slip: a lone paragraph is taken for the body unless it opens
\* with the breaking phrase.
split_section_lone_is_body(c, blocks) ==
    IF blocks = <<>> THEN c
    ELSE IF Len(blocks) = 1 /\ ~StartsWithBC(blocks[1])
         THEN [c EXCEPT !.body = Some(blocks)]
         ELSE [c EXCEPT !.body = IF Len(blocks) > 1
                                  THEN Some(SubSeq(blocks, 1, Len(blocks) - 1))
                                  ELSE None,
                        !.footer = Some(blocks[Len(blocks)])]

\* The Rule::section arm of ConventionalCommit::new: the last block is the
\* footer, the blocks before it, joined, are the body.
split_section(c, blocks) ==
    IF blocks = <<>> THEN c
    ELSE [c EXCEPT !.body = IF Len(blocks) > 1
                             THEN Some(SubSeq(blocks, 1, Len(blocks) - 1))
                             ELSE None,
                   !.footer = Some(blocks[Len(blocks)])]

\* A plausible slip: the body paragraphs are not searched for the phrase.
finalize_commit_footer_only(c) ==
    LET c1 == IF c.commit_type = Unknown /\ c.scope = None /\ c.subject # ""
              THEN [c EXCEPT !.commit_type = NonCompliant]
              ELSE c
    IN IF c1.breaking_change THEN c1
       ELSE IF c1.footer # None /\ StripBCColon(c1.footer[1]) # None
            THEN [c1 EXCEPT !.footer = StripBCColon(c1.footer[1]),
                            !.breaking_change = TRUE]
       ELSE IF c1.footer # None /\ StartsWithBC(c1.footer[1])
            THEN [c1 EXCEPT !.breaking_change = TRUE]
       ELSE c1

\* ConventionalCommit::finalize_commit
finalize_commit(c) ==
    LET c1 == IF c.commit_type = Unknown /\ c.scope = None /\ c.subject # ""
              THEN [c EXCEPT !.commit_type = NonCompliant]
              ELSE c
    IN IF c1.breaking_change THEN c1
       ELSE IF c1.footer # None /\ StripBCColon(c1.footer[1]) # None
            THEN [c1 EXCEPT !.footer = StripBCColon(c1.footer[1]),
                            !.breaking_change = TRUE]
       ELSE IF c1.footer # None /\ StartsWithBC(c1.footer[1])
            THEN [c1 EXCEPT !.breaking_change = TRUE]
       ELSE IF c1.body # None
            THEN [c1 EXCEPT !.breaking_change =
                     \E i \in 1..Len(c1.body[1]) : StartsWithBC(c1.body[1][i])]
       ELSE c1

\* The commit built from the pairs of the grammar, or the error of
\* parse_scope.
FromPairs(pairs) ==
    LET scope == IF pairs.scope = None THEN <<"Ok", None>>
                 ELSE parse_scope(pairs.scope[1])
    IN IF scope[1] = "Err" THEN scope
       ELSE <<"Ok",
              finalize_commit(
                split_section(
                  [ConventionalCommitDefault EXCEPT
                     !.breaking_change = pairs.bang,
                     !.commit_type = IF pairs.commit_type = None THEN Unknown
                                     ELSE CommitTypeFrom(pairs.commit_type[1]),
                     !.scope = scope[2],
                     !.subject = pairs.subject],
                  pairs.section))>>

\* A plausible slip: a message the filter empties is reported as empty.
new_empty_after_prune(m) ==
    IF is_empty(m) \/ is_empty(prune_message(m))
    THEN <<"Err", "EmptyCommitMessage">>
    ELSE FromPairs(CommitMessageParser(prune_message(m)))

\* ConventionalCommit::new(commit_message)
new(m) ==
    IF is_empty(m) THEN <<"Err", "EmptyCommitMessage">>
    ELSE LET pruned_message == IF is_empty(prune_message(m)) THEN m
                               ELSE prune_message(m)
         IN FromPairs(CommitMessageParser(pruned_message))

\* impl fmt::Display for ConventionalCommit
fmt(c) ==
    LET title == CASE c.commit_type = NonCompliant -> ""
                   [] c.commit_type = Unknown -> ""
                   [] OTHER -> as_str(c.commit_type)
        header == IF title = "" THEN <<"free", c.subject>>
                  ELSE <<"conv", FALSE, title, c.scope, c.subject>>
        body == IF c.body # None THEN c.body[1] ELSE <<>>
        footer == IF c.footer # None
                  THEN IF c.breaking_change
                       THEN << <<BC, ":">> \o c.footer[1] >>
                       ELSE << c.footer[1] >>
                  ELSE IF c.breaking_change THEN << <<BC>> >> ELSE <<>>
    IN Message(FALSE, Some(header), body \o footer)

InitParse ==
    /\ pc = "parse"
    /\ current_version \in CurrentVersions
    /\ rules = <<>>
    /\ walked = <<>>
    /\ collected_commits = <<>>
    /\ max_bump_so_far = BumpRuleDefault
    /\ changelog = None
    /\ new_version = None
    /\ commit = DefaultCommit
    /\ rule_out = "pending"
    /\ match_out = "pending"
    /\ message \in Messages
    /\ parsed = <<"pending">>
    /\ formatted = <<>>
    /\ reparsed = <<"pending">>
    /\ IdleWalk /\ IdleCompose /\ IdleBump /\ IdleNotes

\* ConventionalCommit::new(message)
ParseMessage ==
    /\ pc = "parse"
    /\ parsed' = new(message)
    /\ pc' = "parsed"
    /\ UNCHANGED <<current_version, rules, walked, collected_commits,
                   max_bump_so_far, changelog, new_version,
                   commit, rule_out, match_out>>
    /\ UNCHANGED <<message, formatted, reparsed>>
    /\ UNCHANGED <<walk_vars, compose_vars, bump_vars, notes_vars>>

\* commit.to_string()
FormatCommit ==
    /\ pc = "parsed"
    /\ parsed[1] = "Ok"
    /\ formatted' = <<fmt(parsed[2])>>
    /\ pc' = "formatted"
    /\ UNCHANGED <<current_version, rules, walked, collected_commits,
                   max_bump_so_far, changelog, new_version,
                   commit, rule_out, match_out>>
    /\ UNCHANGED <<message, parsed, reparsed>>
    /\ UNCHANGED <<walk_vars, compose_vars, bump_vars, notes_vars>>

\* ConventionalCommit::new(formatted)
ParseFormatted ==
    /\ pc = "formatted"
    /\ reparsed' = new(formatted[1])
    /\ pc' = "reparsed"
    /\ UNCHANGED <<current_version, rules, walked, collected_commits,
                   max_bump_so_far, changelog, new_version,
                   commit, rule_out, match_out>>
    /\ UNCHANGED <<message, parsed, formatted>>
    /\ UNCHANGED <<walk_vars, compose_vars, bump_vars, notes_vars>>

NextParse == ParseMessage \/ FormatCommit \/ ParseFormatted

SpecParse == InitParse /\ [][NextParse]_vars

(***************************************************************************)
(* Properties of the streaming collector (specification Spec).             *)
(***************************************************************************)
\* The step takes one commit from the walker.
TakesCommit == pc = "walk" /\ Len(walked') = Len(walked) + 1

\* The commit taken by the step.
Taken == walked'[Len(walked')]

\* The step takes a commit carrying a version boundary below current_version.
TakesOlderBoundary ==
    /\ TakesCommit
    /\ Taken.version_at_commit # None
    /\ VersionLt(Taken.version_at_commit[1], current_version)

\* The step appends the taken commit and the walk goes on.
AppendsAndContinues ==
    /\ collected_commits' = Append(collected_commits, Taken)
    /\ pc' = "walk"

\* The step ends the walk at the taken commit without appending it.
StopsWithoutAppending ==
    /\ pc' = "break"
    /\ collected_commits' = collected_commits

\* The stop rule of the changelog collector as the specification words it:
\* Major needs x.0.0, Minor needs x.y.0, Patch or lower takes any boundary.
AppropriateStop(m, w) ==
    CASE m = "Major" -> w.minor = 0 /\ w.patch = 0
      [] m = "Minor" -> w.patch = 0
      [] OTHER       -> TRUE

\* C1: with the running maximum at Major, a commit whose boundary W is below
\* the current version ends the walk only if W.minor = 0 and W.patch = 0; any
\* other such W is appended to the collected commits and the walk continues.
C1_MajorStopsOnlyAtMajorAnchor ==
    [][(TakesOlderBoundary /\ max_bump_so_far = "Major") =>
         LET w == Taken.version_at_commit[1]
         IN /\ pc' = "break" => (w.minor = 0 /\ w.patch = 0)
            /\ ~(w.minor = 0 /\ w.patch = 0) => AppendsAndContinues]_vars

\* A breaking commit was collected, then the walk went past the minor anchor
\* 0.1.0, collecting it.
C1_Witness ==
    /\ pc = "walk"
    /\ Len(collected_commits) >= 2
    /\ Len(collected_commits) = Len(walked)
    /\ rule(collected_commits[1].commit_info, rules) = "Major"
    /\ collected_commits[Len(collected_commits)].version_at_commit
          = Some(SimpleVersion(0, 1, 0))

\* C2: with the running maximum at Minor, a commit whose boundary W is below
\* the current version ends the walk exactly when W.patch = 0; otherwise it is
\* appended and the walk continues past the boundary.
C2_MinorStopsIffPatchZero ==
    [][(TakesOlderBoundary /\ max_bump_so_far = "Minor") =>
         LET w == Taken.version_at_commit[1]
         IN IF w.patch = 0 THEN StopsWithoutAppending
                           ELSE AppendsAndContinues]_vars

\* The walk stopped at the minor anchor 0.1.0 with the maximum at Minor.
C2_Witness ==
    /\ pc = "break"
    /\ max_bump_so_far = "Minor"
    /\ walked[Len(walked)].version_at_commit = Some(SimpleVersion(0, 1, 0))
    /\ Len(collected_commits) = Len(walked) - 1

C4_DecisionAfterFold ==
    [][TakesOlderBoundary =>
         LET w == Taken.version_at_commit[1]
             folded == BumpRuleMax(max_bump_so_far, rule(Taken.commit_info, rules))
         IN (pc' = "break") <=> boundary_matches(folded, w.minor, w.patch)]_vars

\* C4 as amended: the stop decision at a boundary below the current version
\* is taken against the maximum of the commits before it; the commit's own
\* bump is folded exactly when the commit is appended, and every commit that
\* is appended has its bump folded.
C4_DecisionBeforeFold ==
    [][TakesCommit =>
         LET m == max_bump_so_far
             cb == rule(Taken.commit_info, rules)
         IN /\ TakesOlderBoundary =>
                  LET w == Taken.version_at_commit[1]
                  IN (pc' = "break") <=>
                        \/ m = "Major" /\ w.minor = 0 /\ w.patch = 0
                        \/ m = "Minor" /\ w.patch = 0
                        \/ m = "Patch"
            /\ max_bump_so_far' =
                  IF pc' = "break" THEN m
                  ELSE IF BumpRuleOrd(cb) >= BumpRuleOrd(m) THEN cb ELSE m]_vars

\* The walk stopped at the patch boundary 0.0.1 carried by a breaking commit:
\* the maximum before it was Patch, with the commit's own bump it would have
\* been Major.
C4_Witness ==
    /\ pc = "break"
    /\ max_bump_so_far = "Patch"
    /\ walked[Len(walked)].version_at_commit = Some(SimpleVersion(0, 0, 1))
    /\ rule(walked[Len(walked)].commit_info, rules) = "Major"

\* C5: when the collector has ended, no collected commit carries a boundary
\* below the current version that is an appropriate stop for the final
\* maximum.
C5_NoAppropriateBoundaryCollected ==
    pc \in {"break", "end"} =>
        \A i \in 1..Len(collected_commits) :
            LET v == collected_commits[i].version_at_commit
            IN (v # None /\ VersionLt(v[1], current_version))
                  => ~AppropriateStop(max_bump_so_far, v[1])

\* The i-th commit of the stream is a boundary below the current version and
\* an appropriate stop for the maximum of the commits before it.
IsAppropriateAt(i) ==
    LET v == walked[i].version_at_commit
    IN /\ v # None
       /\ VersionLt(v[1], current_version)
       /\ AppropriateStop(FoldMaxBump(walked, rules, i - 1), v[1])

\* C6: the collector ends at the first commit of the stream whose boundary
\* is below the current version and appropriate for the maximum at that
\* point, and consumes the whole stream when there is none.
C6_StopsAtFirstAppropriateBoundary ==
    pc \in {"break", "end"} =>
        IF \E i \in 1..Len(walked) : IsAppropriateAt(i)
        THEN /\ pc = "break"
             /\ IsAppropriateAt(Len(walked))
             /\ \A j \in 1..(Len(walked) - 1) : ~IsAppropriateAt(j)
        ELSE pc = "end"

\* C7: next_version is the current version bumped by the greatest, from
\* Notset, of the bumps of the commits of the changelog under the rules.
C7_NextVersionIsBumpOfMaximum ==
    pc = "done" =>
        LET cl == changelog[1]
            bumps == {BumpRuleDefault} \cup
                     {rule(cl.changes[i].commit_info, rules) : i \in 1..Len(cl.changes)}
            m == CHOOSE b \in bumps :
                    \A x \in bumps : BumpRuleOrd(x) <= BumpRuleOrd(b)
        IN new_version = Some(bump(cl.current_version, m))

\* The next version was computed from a changelog of two or more commits
\* whose oldest commit does not carry the greatest bump.
C7_Witness ==
    /\ pc = "done"
    /\ Len(changelog[1].changes) >= 2
    /\ rule(changelog[1].changes[1].commit_info, rules) = "Minor"
    /\ rule(changelog[1].changes[Len(changelog[1].changes)].commit_info, rules) = "NoBump"
    /\ new_version = Some(SimpleVersion(1, 2, 0))

(***************************************************************************)
(* Properties of rule resolution (specification SpecRules).                *)
(***************************************************************************)
\* C8: a breaking commit resolves to Major under every rule list, the empty
\* list and lists mapping its type to a lower bump included.
C8_BreakingIsMajor ==
    (rule_out # "pending" /\ commit.breaking_change) => rule_out = "Major"

\* A breaking commit resolved to Major although the first rule maps its
\* type to NoBump.
C8_Witness ==
    /\ rule_out = "Major"
    /\ commit.breaking_change
    /\ Len(rules) >= 1
    /\ rules[1] = <<commit.commit_type, "NoBump">>

\* C9 as claimed: a non-breaking commit whose type no rule of the list
\* names resolves to Notset, the empty list included.
C9_NoMatchIsNotset ==
    (/\ rule_out # "pending"
     /\ ~commit.breaking_change
     /\ \A i \in 1..Len(rules) : rules[i][1] # commit.commit_type)
        => rule_out = "Notset"

\* C9 as amended: a non-breaking commit whose type no rule of a non-empty
\* list names resolves to Notset; under the empty list it resolves to the
\* bump the built-in defaults give its type (Notset when they name none).
C9_NoMatchIsNotsetUnlessEmpty ==
    (rule_out # "pending" /\ ~commit.breaking_change) =>
        /\ (/\ rules # <<>>
            /\ \A i \in 1..Len(rules) : rules[i][1] # commit.commit_type)
              => rule_out = "Notset"
        /\ rules = <<>> =>
              IF \E i \in 1..Len(build_default_rules) :
                    build_default_rules[i][1] = commit.commit_type
              THEN \E i \in 1..Len(build_default_rules) :
                      build_default_rules[i] = <<commit.commit_type, rule_out>>
              ELSE rule_out = "Notset"

\* A non-breaking feat commit resolved to Notset under a non-empty list that
\* does not name feat, although the built-in defaults do.
C9_Witness ==
    /\ rule_out = "Notset"
    /\ ~commit.breaking_change
    /\ commit.commit_type = Feat
    /\ rules # <<>>

\* C10: match_rule answers the bump of the first pair naming the type, even
\* when a later pair names it with another bump, and Notset when none does.
C10_FirstMatchWins ==
    match_out # "pending" =>
        IF \E i \in 1..Len(rules) : rules[i][1] = commit.commit_type
        THEN \E i \in 1..Len(rules) :
                /\ rules[i][1] = commit.commit_type
                /\ \A j \in 1..(i - 1) : rules[j][1] # commit.commit_type
                /\ match_out = rules[i][2]
        ELSE match_out = "Notset"

\* Two pairs name the commit's type with different bumps and the lookup
\* answered the first.
C10_Witness ==
    /\ match_out # "pending"
    /\ Len(rules) = 2
    /\ rules[1][1] = commit.commit_type
    /\ rules[2][1] = commit.commit_type
    /\ rules[1][2] # rules[2][2]
    /\ match_out = rules[1][2]

(***************************************************************************)
(* Properties of the rule composition (specification SpecCompose).         *)
(***************************************************************************)
\* The run has composed its rules and resolved the commit's bump.
Resolved == pc = "call" /\ rule_out # "pending"

\* Some pair of the list names the commit type.
Names(rs, t) == \E i \in 1..Len(rs) : rs[i][1] = t

\* The bump of the earliest pair of the list that names the commit type.
Earliest(rs, t) ==
    rs[CHOOSE i \in 1..Len(rs) :
          rs[i][1] = t /\ \A j \in 1..(i - 1) : rs[j][1] # t][2]

\* The list without its i-th pair.
RemoveAt(rs, i) == SubSeq(rs, 1, i - 1) \o SubSeq(rs, i + 1, Len(rs))

\* C11: the active rule list is the CLI rules, then the configuration file's
\* rules, then the built-in defaults; the bump of a non-breaking commit is
\* the CLI's for its category if the CLI names it, else the configuration
\* file's, else the default's.
C11_CliThenConfigThenDefaults ==
    Resolved =>
        /\ rules = opts_rule[2] \o config_rules \o build_default_rules
        /\ ~commit.breaking_change =>
              LET t == commit.commit_type
              IN rule_out =
                   IF Names(opts_rule[2], t) THEN Earliest(opts_rule[2], t)
                   ELSE IF Names(config_rules, t) THEN Earliest(config_rules, t)
                   ELSE IF Names(build_default_rules, t)
                        THEN Earliest(build_default_rules, t)
                   ELSE "Notset"

\* The CLI says chore=minor, the configuration file chore=none, the default
\* chore=patch: a chore commit resolves to Minor.
C11_Witness ==
    /\ Resolved
    /\ commit = ConventionalCommit(Chore, FALSE)
    /\ opts_rule = <<"Ok", << <<Chore, "Minor">> >> >>
    /\ config_rules = << <<Chore, "NoBump">> >>
    /\ rule_out = "Minor"

\* C12: a CLI rule for category c does not change the bump of a non-breaking
\* commit of another category: the run resolves the commit to the bump it
\* resolves to without that CLI rule.
C12_CliRuleLeavesOtherCategories ==
    (Resolved /\ ~commit.breaking_change) =>
        \A i \in 1..Len(opts_rule[2]) :
            opts_rule[2][i][1] # commit.commit_type =>
                rule_out = rule(commit,
                                compose_rules(RemoveAt(opts_rule[2], i),
                                              config_rules))

\* The only CLI rule is for chore, the configuration file has no rule, and a
\* feat commit still resolves to the default Minor.
C12_Witness ==
    /\ Resolved
    /\ commit = ConventionalCommit(Feat, FALSE)
    /\ opts_rule = <<"Ok", << <<Chore, "NoBump">> >> >>
    /\ config_rules = <<>>
    /\ rule_out = "Minor"

(***************************************************************************)
(* Properties of the built-in defaults (specification SpecRules).          *)
(***************************************************************************)
\* C13: the built-in defaults are exactly Feat to Minor; Fix, Perf, Refactor,
\* Revert, Style and Chore to Patch; Build, Ci, Cd, Docs and Test to NoBump;
\* Custom, NonCompliant and Unknown have no entry, so a non-breaking commit
\* resolved against the defaults alone gets that bump, or Notset without one.
C13_DefaultsTable ==
    /\ {build_default_rules[i] : i \in 1..Len(build_default_rules)}
          = ({Feat} \X {"Minor"})
            \cup ({Fix, Perf, Refactor, Revert, Style, Chore} \X {"Patch"})
            \cup ({Build, Ci, Cd, Docs, Test} \X {"NoBump"})
    /\ (rules = <<>> /\ rule_out # "pending" /\ ~commit.breaking_change) =>
          LET t == commit.commit_type
          IN rule_out =
               CASE t = Feat -> "Minor"
                 [] t \in {Fix, Perf, Refactor, Revert, Style, Chore} -> "Patch"
                 [] t \in {Build, Ci, Cd, Docs, Test} -> "NoBump"
                 [] OTHER -> "Notset"

\* A chore commit resolved against the defaults alone is a Patch.
C13_Witness ==
    /\ rules = <<>>
    /\ commit = ConventionalCommit(Chore, FALSE)
    /\ rule_out = "Patch"

(***************************************************************************)
(* Properties of SimpleVersion::bump (specification SpecBump).             *)
(***************************************************************************)
\* C14: bumping V = (a, b, c) by Major gives (a+1, 0, 0), by Minor
\* (a, b+1, 0), by Patch (a, b, c+1), by NoBump or Notset V itself; the
\* result is a new value and V is left as it was.
C14_BumpArithmetic ==
    [][(pc = "bump" /\ pc' = "bumped") =>
         LET a == current_version.major
             b == current_version.minor
             c == current_version.patch
         IN /\ current_version' = current_version
            /\ new_version' =
                 Some(CASE opts_bump = "Major" -> [major |-> a + 1, minor |-> 0, patch |-> 0]
                        [] opts_bump = "Minor" -> [major |-> a, minor |-> b + 1, patch |-> 0]
                        [] opts_bump = "Patch" -> [major |-> a, minor |-> b, patch |-> c + 1]
                        [] opts_bump \in {"NoBump", "Notset"} -> current_version)]_vars

\* 1.2.1 was bumped by Major to 2.0.0 and is still 1.2.1.
C14_Witness ==
    /\ pc = "bumped"
    /\ opts_bump = "Major"
    /\ current_version = SimpleVersion(1, 2, 1)
    /\ new_version = Some(SimpleVersion(2, 0, 0))

(***************************************************************************)
(* Properties of the BumpRule maximum (specification SpecMax).             *)
(***************************************************************************)
\* The rearrangements of the positions of a sequence of length n.
Rearrangements(n) ==
    {p \in [1..n -> 1..n] : \A i \in 1..n, j \in 1..n : p[i] = p[j] => i = j}

\* C15: the bump kinds are totally ordered Notset < NoBump < Patch < Minor <
\* Major; max over that order is commutative and associative with Notset as
\* its identity, so the running maximum of a sequence of bumps is the same
\* in whatever order the sequence is folded.
C15_MaxIsOrderIndependent ==
    LET drawn == {bump_seq[i] : i \in 1..Len(bump_seq)}
        n == Len(bump_seq)
    IN /\ BumpRuleOrd("Notset") < BumpRuleOrd("NoBump")
       /\ BumpRuleOrd("NoBump") < BumpRuleOrd("Patch")
       /\ BumpRuleOrd("Patch") < BumpRuleOrd("Minor")
       /\ BumpRuleOrd("Minor") < BumpRuleOrd("Major")
       /\ \A x \in drawn, y \in drawn, z \in drawn :
             /\ BumpRuleMax(x, y) = BumpRuleMax(y, x)
             /\ BumpRuleMax(BumpRuleMax(x, y), z) = BumpRuleMax(x, BumpRuleMax(y, z))
             /\ BumpRuleMax("Notset", x) = x
             /\ BumpRuleMax(x, "Notset") = x
             /\ BumpRuleMax(x, y) \in {x, y}
             /\ BumpRuleOrd(BumpRuleMax(x, y)) >= BumpRuleOrd(x)
       /\ pc = "folded" =>
             \A p \in Rearrangements(n) :
                 FoldBumps([i \in 1..n |-> bump_seq[p[i]]], n) = fold_out

\* Patch, Minor, NoBump folded to Minor.
C15_Witness ==
    /\ pc = "folded"
    /\ bump_seq = <<"Patch", "Minor", "NoBump">>
    /\ fold_out = "Minor"

(***************************************************************************)
(* Properties of the aggregator (specification SpecNotes).                 *)
(***************************************************************************)
\* C16: for a fixed list of changes, two runs of the aggregator give the
\* same output: the same groups in the same order, each with the same scopes
\* and commits in the same order.
C16_AggregatorIsDeterministic ==
    pc = "twice" => notes_first = notes_second

\* The lexicographic rank of the scopes drawn; the empty scope comes first.
ScopeRank(sc) == CASE sc = "" -> 0 [] sc = "api" -> 1 [] sc = "cli" -> 2

\* C17: within each group of the aggregator's output the scopes are in
\* lexicographic order, the scopeless entry first.
C17_ScopesSorted ==
    pc \in {"once", "twice"} =>
        \A g \in 1..Len(notes_first) :
            LET scopes == notes_first[g].scopes
            IN \A i \in 1..Len(scopes), j \in 1..Len(scopes) :
                 i < j => ScopeRank(scopes[i][1]) < ScopeRank(scopes[j][1])

(***************************************************************************)
(* Properties of the walk's failures (specification Spec).                 *)
(***************************************************************************)
\* C18: a failure on any single commit during the walk aborts the walk with
\* an error, so a walk that came to its end or to its stopping boundary has
\* passed over no failing commit.
C18_NoFailingCommitSkipped ==
    pc \in {"end", "break", "returned", "done"} => ~dropped

\* C19 as claimed: walking a repository with no commits gives an empty
\* sequence and not an error.
C19_EmptyHistoryIsEmptySequence ==
    (~repo_has_commits /\ pc # "start") =>
        (pc # "error" /\ collected_commits = <<>>)

\* C19: walking a repository with no commits is an error (push_head has no
\* HEAD to push) and no ChangeLog is built; a walk over a repository with
\* commits that yields none of them gives a ChangeLog with no changes.
C19_EmptyRepositoryIsError ==
    /\ (~repo_has_commits /\ pc # "start") =>
          (pc = "error" /\ changelog = None /\ new_version = None)
    /\ (repo_has_commits /\ walked = <<>> /\ pc \in {"returned", "done"}) =>
          changelog = Some(ChangeLogNew(current_version, <<>>))

\* The repository has no commit and the walk ended in the error.
C19_Witness ==
    /\ ~repo_has_commits
    /\ pc = "error"
    /\ collected_commits = <<>>

(***************************************************************************)
(* Properties of the configuration load (specification SpecCompose).       *)
(***************************************************************************)
\* C20: a configuration file that does not parse ends the run with an error
\* before any bump is resolved; a configuration file that is not there gives
\* no configuration rules and the run goes on.
C20_MalformedFatalMissingEmpty ==
    /\ config_file = <<"Malformed">> =>
          (pc \in {"config", "error"} /\ rule_out = "pending")
    /\ (config_file \in {<<"None">>, <<"Missing">>} /\ pc # "config") =>
          /\ config_rules = <<>>
          /\ pc = "error" => opts_rule = <<"Err">>

(***************************************************************************)
(* Properties of the commit-message parser (specification SpecParse).      *)
(***************************************************************************)
\* C21: parsing what Display writes for a parsed commit gives the same
\* parsed commit again, also for a message whose only breaking sign is the
\* ! of its header and that has no body and no footer.
C21_ParseFormatRoundTrip ==
    pc = "reparsed" => reparsed = parsed

\* The message was parsed into a commit.
ParsedOk == pc # "parse" /\ parsed[1] = "Ok"

\* The header of the message carries a ! marker.
HeaderBang ==
    /\ message.header # None
    /\ message.header[1][1] = "conv"
    /\ message.header[1][2]

\* The last paragraph after the header, the footer of the text.
LastPara == message.paras[Len(message.paras)]

\* C22 as claimed: a message that is empty once the preamble filter has run
\* fails with the empty-message error.
C22_EmptyAfterFilterIsError ==
    (pc # "parse" /\ is_empty(prune_message(message))) =>
        parsed = <<"Err", "EmptyCommitMessage">>

\* C22: ConventionalCommit::new fails with the empty-message error exactly
\* when the message is empty before the preamble filter runs; a message of
\* plumbing lines only, which the filter empties, does not get that error.
C22_EmptyBeforeFilterIsError ==
    pc # "parse" =>
        (parsed = <<"Err", "EmptyCommitMessage">> <=> is_empty(message))

\* A message of plumbing lines only was parsed without the empty-message
\* error.
C22_Witness ==
    /\ pc = "parsed"
    /\ message = Message(TRUE, None, <<>>)
    /\ parsed # <<"Err", "EmptyCommitMessage">>

C26_FooterPhraseIsStripped ==
    (ParsedOk /\ message.paras # <<>> /\ StripBCColon(LastPara) # None) =>
        parsed[2].footer = StripBCColon(LastPara)

\* C27 as claimed: a lone paragraph after the header is the footer only if
\* it begins with BREAKING CHANGE, and is the body otherwise.
C27_LoneParagraphIsBodyUnlessBreaking ==
    (ParsedOk /\ Len(message.paras) = 1) =>
        IF StartsWithBC(LastPara)
        THEN parsed[2].body = None /\ parsed[2].footer # None
        ELSE parsed[2].body = Some(<<LastPara>>) /\ parsed[2].footer = None

\* C27: a lone paragraph after the header is the footer, whether or not it
\* begins with BREAKING CHANGE, and the body is absent; the stored footer is
\* the paragraph, or its text after a leading BREAKING CHANGE: where
\* finalize_commit removes that.
C27_LoneParagraphIsFooter ==
    (ParsedOk /\ Len(message.paras) = 1) =>
        /\ parsed[2].body = None
        /\ parsed[2].footer # None
        /\ parsed[2].footer \in {Some(LastPara), StripBCColon(LastPara)}

\* A lone plain paragraph was stored as the footer.
C27_Witness ==
    /\ ParsedOk
    /\ message.paras = << <<"t">> >>
    /\ parsed[2].footer = Some(<<"t">>)
    /\ parsed[2].body = None

(***************************************************************************)
(* Further properties of the streaming collector (specification Spec).     *)
(***************************************************************************)
\* C24: the collector ends the walk only at a commit that carries a version
\* boundary W below the current version V; a commit without boundary, and a
\* commit whose boundary W is not below V (W = V included), is appended and
\* the walk continues.
C24_StopsOnlyBelowCurrent ==
    [][TakesCommit =>
         /\ pc' = "break" => TakesOlderBoundary
         /\ ~TakesOlderBoundary => AppendsAndContinues]_vars

\* With the maximum at Patch, where any older boundary would end the walk,
\* a commit whose boundary equals the current version was appended and the
\* walk is still running.
C24_Witness ==
    /\ pc = "walk"
    /\ Len(collected_commits) >= 2
    /\ Len(collected_commits) = Len(walked)
    /\ rule(collected_commits[1].commit_info, rules) = "Patch"
    /\ collected_commits[Len(collected_commits)].version_at_commit
          = Some(current_version)

\* C25: the collected list is the part of the walker's stream that precedes
\* the commit the walk stopped at, the whole stream when it did not stop, in
\* the walker's order; the stop commit is not in it.
C25_CollectedIsPrefixOfStream ==
    /\ pc = "break" =>
          collected_commits = SubSeq(walked, 1, Len(walked) - 1)
    /\ pc \in {"walk", "end"} => collected_commits = walked
    /\ pc \in {"returned", "done"} =>
          /\ changelog[1].changes = collected_commits
          /\ \/ collected_commits = walked
             \/ collected_commits = SubSeq(walked, 1, Len(walked) - 1)

\* The walk stopped at the third commit of a stream of three different
\* commits and the two before it were returned in the walker's order.
C25_Witness ==
    /\ pc = "returned"
    /\ Len(walked) = 3
    /\ walked[1] # walked[2]
    /\ changelog[1].changes = <<walked[1], walked[2]>>

\* The greatest, from Notset, of the bumps of the commits of cs under rs.
GreatestBump(cs, rs) ==
    LET bumps == {BumpRuleDefault} \cup
                 {rule(cs[i].commit_info, rs) : i \in 1..Len(cs)}
    IN CHOOSE b \in bumps : \A x \in bumps : BumpRuleOrd(x) <= BumpRuleOrd(b)

\* C28: at every step of the walk max_bump_so_far is the greatest, from
\* Notset, of the bumps of exactly the commits in collected_commits; it is
\* therefore the bump that next_version folds over the returned changelog.
C28_MaxIsMaxOfCollected ==
    /\ pc \in {"walk", "break", "end", "returned", "done"} =>
          /\ max_bump_so_far = GreatestBump(collected_commits, rules)
          /\ max_bump_so_far =
                FoldMaxBump(collected_commits, rules, Len(collected_commits))
    /\ pc = "done" =>
          new_version = Some(bump(current_version, max_bump_so_far))

\* The walk went past a boundary commit whose bump, Major, is above that of
\* the commit before it and stopped at the next commit: the maximum holds
\* the bump of the collected boundary commit.
C28_Witness ==
    /\ pc = "break"
    /\ Len(walked) = 3
    /\ rule(walked[1].commit_info, rules) = "NoBump"
    /\ walked[2].version_at_commit # None
    /\ rule(walked[2].commit_info, rules) = "Major"
    /\ max_bump_so_far = "Major"

\* C29: over the sequence of commits the walker yielded, the legacy two-pass
\* collector returns the same list as the streaming collector, for every
\* sequence, current version and rule list.
C29_LegacyEqualsStreaming ==
    pc \in {"break", "end"} =>
        collect_changelog_commits(walked, current_version, rules)
            = collected_commits

\* C30: the next version is never below the current version in the order of
\* SimpleVersion, and it equals the current version exactly when the
\* greatest bump folded over the changelog is NoBump or Notset.
C30_NextVersionNotLower ==
    pc = "done" =>
        LET cl == changelog[1]
            m == GreatestBump(cl.changes, rules)
        IN /\ ~VersionLt(new_version[1], cl.current_version)
           /\ (new_version[1] = cl.current_version)
                 <=> m \in {"NoBump", "Notset"}

\* A changelog of commits whose greatest bump is NoBump left the version as
\* it was.
C30_Witness ==
    /\ pc = "done"
    /\ Len(changelog[1].changes) >= 2
    /\ GreatestBump(changelog[1].changes, rules) = "NoBump"
    /\ new_version = Some(current_version)

====
